---- MODULE Spec2Model ----
(***************************************************************************)
(* A model of mocha's parallel-mode worker pool wrapper (lib/pool.js):     *)
(* the WorkerPool class (constructor, run, stats, terminate), the          *)
(* module-level cache of serialized options, and the collaborators the     *)
(* class talks to (workerpool's Pool, serialize-javascript, the result     *)
(* deserializer and the error factory); and of the supporters data script  *)
(* of the documentation site (getAllOrders and the exported function).     *)
(***************************************************************************)
EXTENDS Integers, Sequences, FiniteSets, TLC

\* ------------------------------------------------------------------ bounds
\* Largest number of CPU cores of a modelled host.
MaxCpus == 8
\* Largest maxWorkers a caller of the constructor asks for.
MaxRequested == 3
\* Number of options objects (distinct references) the callers hold.
NumObjs == 2
\* Number of run() calls the callers issue.
MaxCalls == 2
\* Number of calls made with the options argument omitted.
MaxFresh == 2
\* Number of times the serializer is let fail on one object between resets.
MaxAttempts == 2
\* Page size of the orders query (the script asks for 1000 a page), number
\* of pages it is let request, and number of orders of an account.
PageSize == 2
MaxPages == 3
MaxOrders == 3

\* ------------------------------------------------------- JavaScript values
Undefined == [t |-> "undefined"]
NaN == [t |-> "number", nan |-> TRUE]
Num(n) == [t |-> "number", v |-> n]
Str(s) == [t |-> "string", s |-> s]

\* typeof v
TypeOf(v) == v.t

\* ToBoolean(v): undefined, NaN, 0 and "" are falsy.
Truthy(v) ==
    CASE v.t = "undefined" -> FALSE
      [] v.t = "number" -> v # NaN /\ v.v # 0
      [] v.t = "string" -> v.s # ""
      [] OTHER -> TRUE

\* ToNumber(v) for the values a maxWorkers option takes here.
ToNumber(v) == IF v.t = "number" THEN v ELSE NaN

\* Math.max(a, b): NaN when either argument converts to NaN.
MathMax(a, b) ==
    LET x == ToNumber(a)
        y == ToNumber(b)
    IN  IF x = NaN \/ y = NaN THEN NaN
        ELSE IF x.v >= y.v THEN x ELSE y

\* a >= b on numbers: every comparison with NaN is false.
NumGeq(a, b) == a # NaN /\ b # NaN /\ a.t = "number" /\ b.t = "number" /\ a.v >= b.v

\* obj[k], undefined for a key the object does not own.
Get(obj, k) == IF k \in DOMAIN obj THEN obj[k] ELSE Undefined

\* Object.assign({}, a, b)
ObjectAssign(a, b) ==
    [k \in (DOMAIN a) \cup (DOMAIN b) |-> IF k \in DOMAIN b THEN b[k] ELSE a[k]]

\* ------------------------------------------------------------ the host
\* Launch flags (process.execArgv) a mocha process may have been started with.
ExecArgvs == {<<>>, <<"--inspect">>}

VARIABLES
    CPU_COUNT,       \* cpus().length, read when the module is loaded
    execArgv,        \* process.execArgv
    createArgs,      \* the arguments the pool instance was constructed with
    options,         \* this.options of the pool instance (NoInstance before construction)
    poolConfig,      \* what workerpool.pool() was called with
    optionsCache,    \* the module's WeakMap: options reference -> serialized string
    heap,            \* the callers' options objects: reference -> current content
    serializerCalls, \* serialize-javascript invocations per reference since the cache was last reset
    returned,        \* per reference, the strings serializeOptions returned to its callers since the last reset (last two)
    stale,           \* the references whose entry a reset discarded and that were not serialized since
    reserialized,    \* the references serialized again since the reset that discarded their entry
    sinceReset,      \* the run() calls that serialized their options since the last reset: <<instance, call>>
    thrown,          \* per reference, the serializeOptions calls the serializer's error came out of since the last reset
    allocated,       \* number of options objects made by a default parameter value
    peer,            \* a second pool instance of the same module
    calls,           \* the run() invocations, in the order they were made
    queue,           \* the executor's pending tasks, in submission order
    running,         \* the tasks workers are executing
    term,            \* the executor's lifecycle and the terminate() request it received
    atTerminate,     \* the calls in flight when termination was last requested
    statsRet,        \* when the last operation was stats(): what the executor produced, what was returned
    scriptPc,        \* where the supporters script is: idle, fetching, fetched, done
    variables,       \* the variables of its next request
    requested,       \* the variables of the requests it made
    pages,           \* the pages of orders it received
    allOrders,       \* the orders it has collected
    supporters       \* what the exported function resolved with

vars == <<CPU_COUNT, execArgv, createArgs, options, poolConfig, optionsCache,
          heap, serializerCalls, returned, stale, reserialized, sinceReset,
          thrown, allocated, peer, calls, queue, running, term, atTerminate,
          statsRet, scriptPc, variables, requested, pages, allOrders, supporters>>

hostVars == <<CPU_COUNT, execArgv>>
instanceVars == <<createArgs, options, poolConfig>>
cacheVars == <<optionsCache, serializerCalls, returned, stale, reserialized, sinceReset, thrown>>
executorVars == <<queue, running, term, atTerminate>>
scriptVars == <<scriptPc, variables, requested, pages, allOrders, supporters>>
poolVars == <<hostVars, instanceVars, cacheVars, heap, allocated, peer, calls,
              executorVars, statsRet>>

\* ------------------------------------------------------- the constructor
NoInstance == [t |-> "none"]

\* statsRet when the last operation was not stats().
NoStats == [t |-> "none"]

WORKER_PATH == "./worker.js"

DEFAULT_MAX_WORKERS(cpu) == cpu - 1

WORKER_POOL_DEFAULT_OPTS(cpu, argv) ==
    [workerType |-> Str("process"),
     forkOpts |-> [execArgv |-> argv],
     maxWorkers |-> Num(DEFAULT_MAX_WORKERS(cpu))]

\* The maxWorkers the constructor resolves from the options it was given.
ResolveUnclamped(opts) == ToNumber(Get(opts, "maxWorkers"))
ResolveMaxWorkers(opts) == MathMax(Num(1), Get(opts, "maxWorkers"))

\* The options the constructor works on: the default parameter value applies
\* when no argument (or undefined) is passed.
ConstructorOpts(args, cpu, argv) ==
    IF Len(args) = 0 \/ args[1] = Undefined
    THEN WORKER_POOL_DEFAULT_OPTS(cpu, argv)
    ELSE args[1]

\* this.options = Object.assign({}, opts, {maxWorkers})
ConstructedOptions(args, cpu, argv) ==
    LET opts == ConstructorOpts(args, cpu, argv)
    IN  ObjectAssign(opts, [maxWorkers |-> ResolveMaxWorkers(opts)])

\* The configurations callers pass to create() / new WorkerPool().
RequestedMaxWorkers == {Num(n) : n \in -1 .. MaxRequested} \cup {Undefined}
PoolConfigurations ==
    { [k \in ks |-> CASE k = "maxWorkers" -> mw
                      [] k = "workerType" -> wt
                      [] k = "forkOpts" -> [execArgv |-> <<"--no-warnings">>]
                      [] OTHER -> Str("bar")] :
        ks \in SUBSET {"maxWorkers", "workerType", "forkOpts", "foo"},
        mw \in RequestedMaxWorkers,
        wt \in {Str("process"), Str("thread")} }
ConstructorArgs == {<<>>} \cup {<<o>> : o \in PoolConfigurations}

\* The pool instance new WorkerPool(...args) yields: its options, and the
\* executor workerpool.pool(WORKER_PATH, this.options) it holds.
Create(args) ==
    /\ createArgs' = args
    /\ options' = ConstructedOptions(args, CPU_COUNT, execArgv)
    /\ poolConfig' = [script |-> WORKER_PATH, options |-> options']
    /\ statsRet' = NoStats
    /\ UNCHANGED <<hostVars, scriptVars, peer, allocated, cacheVars, heap, calls, executorVars>>

\* A second instance, made by the same module: its constructor arguments and
\* options, what its run() calls handed to its executor, and the force its
\* terminate() passed on.
NoPeer == [createArgs |-> <<>>, options |-> NoInstance, execs |-> <<>>, terminated |-> <<>>]

\* ------------------------------------------------------ the options cache
Refs == 1 .. NumObjs

\* The references of all objects: the callers' and, after them, the objects
\* a default parameter value `= {}` makes, one per call.
AllRefs == 1 .. NumObjs + MaxFresh

\* The object `opts = {}` / `options = {}` evaluates to: a new one each time.
SharedDefaultRef == NumObjs + 1
FreshRef == NumObjs + allocated + 1

\* A property of an options object: key, type of the value, the value.
Prop(k, t, v) == [k |-> k, t |-> t, v |-> v]

\* The contents an options object takes: {}, {foo: 'bar'} and
\* {foo: 'bar', fn: function () {}}.
EmptyContent == <<>>
FooBar == <<Prop("foo", "string", "bar")>>
FooBarFn == <<Prop("foo", "string", "bar"), Prop("fn", "function", "")>>
Contents == {EmptyContent, FooBar, FooBarFn}

\* An object that refers to itself, {self: <the object>}: JSON.stringify,
\* which serialize-javascript is built on, throws a TypeError on it.
Circular == <<Prop("self", "circular", "")>>
SerializerThrows(content) == \E i \in 1 .. Len(content) : content[i].t = "circular"
SerializerError == [kind |-> "TypeError", message |-> "Converting circular structure to JSON"]

\* The objects as the callers first hold them; an object made by `= {}` is empty.
InitialHeap == [r \in AllRefs |-> IF r \in Refs THEN FooBar ELSE EmptyContent]

\* A WeakMap with no entries.
EmptyMap == [r \in {} |-> ""]

\* JSON text of the properties that are left once functions are dropped.
RECURSIVE JoinProps(_)
JoinProps(ps) ==
    IF ps = <<>> THEN ""
    ELSE "\"" \o ps[1].k \o "\":\"" \o ps[1].v \o "\""
         \o (IF Len(ps) > 1 THEN "," \o JoinProps(Tail(ps)) ELSE "")

\* serializeJavascript(opts, {unsafe: true, ignoreFunction: true})
serializeJavascript(content) ==
    "{" \o JoinProps(SelectSeq(content, LAMBDA p : p.t # "function")) \o "}"

\* The key of the WeakMap entry of object o: the object itself.
KeyByContent(o) ==
    CHOOSE r \in AllRefs :
        heap[r] = heap[o] /\ \A q \in AllRefs : heap[q] = heap[o] => r <= q
CacheKey(o) == o

\* optionsCache.has(opts)
HasNever(cache, o) == FALSE
OptionsCacheHas(cache, o) == CacheKey(o) \in DOMAIN cache

\* optionsCache.set(opts, serialized)
OptionsCacheSet(cache, o, serialized) ==
    [r \in (DOMAIN cache) \cup {CacheKey(o)} |->
        IF r = CacheKey(o) THEN serialized ELSE cache[r]]

\* optionsCache.get(opts)
OptionsCacheGet(cache, o) == cache[CacheKey(o)]

\* The cache once serializeOptions(o) has run: an entry is added on a miss.
CacheAfterSerialize(cache, o) ==
    IF ~OptionsCacheHas(cache, o)
    THEN OptionsCacheSet(cache, o, serializeJavascript(heap[o]))
    ELSE cache

\* serializeOptions(o) throws: o has no entry and the serializer fails on it,
\* before optionsCache.set is reached.
NeverFails(o) == FALSE
SerializeFails(o) == ~OptionsCacheHas(optionsCache, o) /\ SerializerThrows(heap[o])

\* What one serializeOptions(o) does to the cache: on a miss an invocation of
\* the serializer and, unless it throws, an entry; o has then been serialized
\* since the last reset.
CacheEffect(o) ==
    /\ SerializeFails(o) => thrown[o] < MaxAttempts
    /\ optionsCache' = IF SerializeFails(o) THEN optionsCache
                       ELSE CacheAfterSerialize(optionsCache, o)
    /\ serializerCalls' =
         [serializerCalls EXCEPT ![o] = IF OptionsCacheHas(optionsCache, o) THEN @ ELSE @ + 1]
    /\ stale' = IF SerializeFails(o) THEN stale ELSE stale \ {o}
    /\ reserialized' = IF o \in stale /\ ~SerializeFails(o)
                       THEN reserialized \cup {o} ELSE reserialized
    /\ thrown' = [thrown EXCEPT ![o] = IF SerializeFails(o) THEN @ + 1 ELSE @]

\* serializeOptions(o), called by a user of the class, who gets
\* optionsCache.get(o) back unless the serializer threw.
SerializeFrom(o) ==
    /\ CacheEffect(o)
    /\ returned' = [returned EXCEPT ![o] =
                       IF SerializeFails(o) THEN @
                       ELSE IF Len(@) < 2 THEN Append(@, OptionsCacheGet(optionsCache', o))
                       ELSE <<@[2], OptionsCacheGet(optionsCache', o)>>]
    /\ statsRet' = NoStats
    /\ UNCHANGED <<hostVars, scriptVars, peer, instanceVars, heap, sinceReset, calls, executorVars>>

\* WorkerPool.serializeOptions(o)
SerializeOptions(o) == SerializeFrom(o) /\ UNCHANGED allocated

\* WorkerPool.serializeOptions(): the default parameter value makes the object.
SerializeOptionsDefault ==
    /\ allocated < MaxFresh
    /\ SerializeFrom(FreshRef)
    /\ allocated' = allocated + 1

\* The value resetOptionsCache() assigns to optionsCache.
ResetKeepsEntries == optionsCache
ResetValue == EmptyMap

\* WorkerPool.resetOptionsCache()
ResetOptionsCache ==
    /\ optionsCache' = ResetValue
    /\ serializerCalls' = [r \in AllRefs |-> 0]
    /\ returned' = [r \in AllRefs |-> <<>>]
    /\ stale' = stale \cup DOMAIN optionsCache
    /\ reserialized' = {}
    /\ sinceReset' = {}
    /\ thrown' = [r \in AllRefs |-> 0]
    /\ statsRet' = NoStats
    /\ UNCHANGED <<hostVars, scriptVars, peer, allocated, instanceVars, heap, calls, executorVars>>

\* The owner of options object o changes its content.
Mutate(o, content) ==
    /\ heap[o] # content
    /\ heap' = [heap EXCEPT ![o] = content]
    /\ statsRet' = NoStats
    /\ UNCHANGED <<hostVars, scriptVars, peer, allocated, instanceVars, cacheVars, calls, executorVars>>

\* ------------------------------------------------------------ run()
Calls == 1 .. MaxCalls

\* What callers pass as filepath: nothing, '', 123, 'file.js'.
FilepathInputs == {Undefined, Str(""), Num(123), Str("file.js")}

\* createInvalidArgumentTypeError(message, argument, expected) of lib/errors.
createInvalidArgumentTypeError(message, argument, expected) ==
    [kind |-> "TypeError", code |-> "ERR_MOCHA_INVALID_ARG_TYPE",
     message |-> message, argument |-> argument, expected |-> expected]

\* !filepath || typeof filepath !== 'string'
OnlyTypeChecked(fp) == TypeOf(fp) # "string"
OrPoolNotRunning(fp) == ~Truthy(fp) \/ TypeOf(fp) # "string" \/ term.phase # "running"
InvalidFilepath(fp) == ~Truthy(fp) \/ TypeOf(fp) # "string"

\* The task run() hands to this._pool.exec: 'run', [filepath, serializedOptions].
RunTaskUnserialized(fp, serializedOptions) == [name |-> "run", args |-> <<fp>>]
RunTask(fp, serializedOptions) == [name |-> "run", args |-> <<fp, serializedOptions>>]

\* A raw result a worker sends back, and deserialize(result) of lib/serializer.
RawResult(failures) ==
    [type |-> "SerializedWorkerResult", failures |-> failures, events |-> <<>>]
RawResults == {RawResult(0), RawResult(1)}
deserialize(raw) == [failures |-> raw.failures, events |-> raw.events]

\* What run() returns once the executor resolved with `raw`.
RunReturnsFirstResult(raw) ==
    IF \E c \in Calls : calls[c].pc = "resolved"
    THEN (CHOOSE v \in {calls[c].val : c \in {b \in Calls : calls[b].pc = "resolved"}} : TRUE)
    ELSE deserialize(raw)
RunReturn(raw) == deserialize(raw)

\* What run() rejects with when the awaited exec promise rejects with err.
RunWrapsError(err) == [kind |-> "Error", message |-> "run failed", cause |-> err]
RunRejection(err) == err

\* A run() call not made yet. `issuedIn` keeps the executor's lifecycle phase
\* at the time of the call, `raw` what the executor resolved the call's task with.
IdleCall ==
    [pc |-> "idle", fp |-> Undefined, opts |-> 0, ser |-> "", tasks |-> <<>>,
     raised |-> Undefined, deser |-> <<>>, val |-> Undefined,
     issuedIn |-> "", raw |-> Undefined]

\* run(fp, o), up to its await: the k-th call is the k-th run() made. A
\* serializer that throws makes the async function reject before exec.
RunFrom(c, fp, o) ==
    /\ calls[c].pc = "idle"
    /\ \A b \in Calls : b < c => calls[b].pc # "idle"
    /\ IF InvalidFilepath(fp)
       THEN /\ calls' = [calls EXCEPT ![c] =
                  [@ EXCEPT !.pc = "rejected", !.fp = fp, !.issuedIn = term.phase,
                            !.val = createInvalidArgumentTypeError(
                                       "Expected a non-empty filepath", "filepath", "string")]]
            /\ UNCHANGED <<cacheVars, queue>>
       ELSE /\ CacheEffect(o)
            /\ UNCHANGED returned
            /\ IF SerializeFails(o)
               THEN /\ calls' = [calls EXCEPT ![c] =
                          [@ EXCEPT !.pc = "rejected", !.fp = fp, !.opts = o,
                                    !.issuedIn = term.phase, !.val = SerializerError]]
                    /\ UNCHANGED <<sinceReset, queue>>
               ELSE /\ calls' = [calls EXCEPT ![c] =
                          [@ EXCEPT !.pc = "awaiting", !.fp = fp, !.opts = o,
                                    !.issuedIn = term.phase,
                                    !.ser = OptionsCacheGet(optionsCache', o),
                                    !.tasks = Append(@, RunTask(fp, OptionsCacheGet(optionsCache', o)))]]
                    /\ sinceReset' = sinceReset \cup {<<1, c>>}
                    /\ queue' = Append(queue, c)
    /\ statsRet' = NoStats
    /\ UNCHANGED <<hostVars, scriptVars, peer, instanceVars, heap, running, term, atTerminate>>

\* run(fp, o)
Run(c, fp, o) == RunFrom(c, fp, o) /\ UNCHANGED allocated

\* run(fp): the default parameter value makes the options object.
RunDefault(c, fp) ==
    /\ allocated < MaxFresh
    /\ RunFrom(c, fp, FreshRef)
    /\ allocated' = allocated + 1

\* ------------------------------------------------------ the executor
\* Errors the executor rejects a task with: a worker that died, a task that
\* could not be dispatched, and a task cancelled by termination.
WorkerCrashed == [kind |-> "Error", message |-> "Workerpool Worker terminated Unexpectedly"]
DispatchFailed == [kind |-> "Error", message |-> "spawn failed"]
PoolTerminated == [kind |-> "Error", message |-> "Pool terminated"]
ExecutorErrors == {WorkerCrashed, DispatchFailed}

Range(seq) == {seq[i] : i \in 1 .. Len(seq)}

\* The worker limit the executor was configured with.
MaxWorkersOf(cfg) == cfg.options.maxWorkers.v

\* A worker takes the oldest pending task.
Dispatch ==
    /\ queue # <<>>
    /\ Cardinality(running) < MaxWorkersOf(poolConfig)
    /\ term.phase = "running" \/ (term.phase = "terminating" /\ ~term.force)
    /\ running' = running \cup {Head(queue)}
    /\ queue' = Tail(queue)
    /\ statsRet' = NoStats
    /\ UNCHANGED <<hostVars, scriptVars, peer, allocated, instanceVars, cacheVars, heap, calls, term, atTerminate>>

\* A worker finishes task c with `raw`: exec's promise resolves and run()
\* resumes after its await, deserializes and returns.
TaskCompletes(c, raw) ==
    /\ c \in running
    /\ running' = running \ {c}
    /\ calls' = [calls EXCEPT ![c] =
           [@ EXCEPT !.pc = "resolved", !.raw = raw, !.deser = Append(@, raw),
                     !.val = RunReturn(raw)]]
    /\ statsRet' = NoStats
    /\ UNCHANGED <<hostVars, scriptVars, peer, allocated, instanceVars, cacheVars, heap, queue, term, atTerminate>>

\* The calls whose exec promise the executor rejects with err (kept as
\* `raised`): run() rethrows what its await threw.
Rejected(cs, err) ==
    [c \in Calls |-> IF c \in cs
                     THEN [calls[c] EXCEPT !.pc = "rejected", !.raised = err,
                                           !.val = RunRejection(err)]
                     ELSE calls[c]]

\* The executor fails task c (pending or executing) with err.
TaskFails(c, err) ==
    /\ c \in running \cup Range(queue)
    /\ running' = running \ {c}
    /\ queue' = SelectSeq(queue, LAMBDA x : x # c)
    /\ calls' = Rejected({c}, err)
    /\ statsRet' = NoStats
    /\ UNCHANGED <<hostVars, scriptVars, peer, allocated, instanceVars, cacheVars, heap, term, atTerminate>>

\* ------------------------------------------------- terminate() and stats()
\* terminate(force = false): the force the executor is asked with.
ForceByDefault(args) == IF Len(args) = 0 THEN TRUE ELSE args[1]
ForceDropped(args) == FALSE
TerminateForce(args) == IF Len(args) = 0 THEN FALSE ELSE args[1]

TerminateArgs == {<<>>, <<FALSE>>, <<TRUE>>}

\* terminate(...args): delegates to the executor. A forced termination kills
\* the workers, so every task in flight fails; otherwise executing tasks are
\* left to finish and pending ones are dropped or kept, as the executor chooses.
Terminate(args, dropPending) ==
    LET force == TerminateForce(args)
        killed == IF force THEN running \cup Range(queue)
                  ELSE IF dropPending THEN Range(queue) ELSE {}
    IN  /\ \/ term.phase = "running"
           \/ term.phase = "terminating" /\ ~term.force /\ force
        /\ force => dropPending
        /\ term' = [phase |-> "terminating", args |-> args, force |-> force]
        /\ atTerminate' = [dispatched |-> running, inflight |-> running \cup Range(queue)]
        /\ calls' = Rejected(killed, PoolTerminated)
        /\ running' = running \ killed
        /\ queue' = SelectSeq(queue, LAMBDA x : x \notin killed)
        /\ statsRet' = NoStats
        /\ UNCHANGED <<hostVars, scriptVars, peer, allocated, instanceVars, cacheVars, heap>>

\* Every worker has exited: the promise terminate() returned resolves.
TerminateResolves ==
    /\ term.phase = "terminating"
    /\ running = {}
    /\ term' = [term EXCEPT !.phase = "terminated"]
    /\ statsRet' = NoStats
    /\ UNCHANGED <<hostVars, scriptVars, peer, allocated, instanceVars, cacheVars, heap, calls, queue, running, atTerminate>>

\* this._pool.stats(): the executor's snapshot.
ExecutorStats ==
    LET total == IF term.phase = "terminated" \/ (term.phase = "terminating" /\ term.force)
                 THEN 0 ELSE MaxWorkersOf(poolConfig)
    IN  [totalWorkers |-> total, busyWorkers |-> Cardinality(running),
         idleWorkers |-> total - Cardinality(running), pendingTasks |-> Len(queue)]

\* What stats() returns, given what this._pool.stats() produced.
StatsWithoutPending(produced) == [produced EXCEPT !.pendingTasks = 0]
StatsReturn(produced) == produced

\* stats()
Stats ==
    /\ statsRet = NoStats
    /\ statsRet' = [t |-> "stats", produced |-> ExecutorStats,
                    returned |-> StatsReturn(ExecutorStats)]
    /\ UNCHANGED <<hostVars, scriptVars, peer, allocated, instanceVars, cacheVars, heap, calls, executorVars>>

\* ------------------------------------------------- a second instance
\* What the second pool is constructed with.
PeerArgs == {<<>>, <<[maxWorkers |-> Num(2)]>>}

\* new WorkerPool(...args), once more in the same process.
PeerCreate(args) ==
    /\ peer.options = NoInstance
    /\ peer' = [peer EXCEPT !.createArgs = args,
                            !.options = ConstructedOptions(args, CPU_COUNT, execArgv)]
    /\ statsRet' = NoStats
    /\ UNCHANGED <<hostVars, scriptVars, allocated, instanceVars, cacheVars, heap, calls, executorVars>>

\* run(fp, o) on the second instance, up to its await: the same module-level
\* cache, the instance's own executor.
PeerRun(fp, o) ==
    /\ peer.options # NoInstance
    /\ Len(peer.execs) < MaxCalls
    /\ IF InvalidFilepath(fp)
       THEN UNCHANGED <<cacheVars, peer>>
       ELSE /\ CacheEffect(o)
            /\ UNCHANGED returned
            /\ IF SerializeFails(o)
               THEN UNCHANGED <<sinceReset, peer>>
               ELSE /\ peer' = [peer EXCEPT !.execs = Append(@,
                                   [task |-> RunTask(fp, OptionsCacheGet(optionsCache', o)),
                                    opts |-> o])]
                    /\ sinceReset' = sinceReset \cup {<<2, Len(peer.execs) + 1>>}
    /\ statsRet' = NoStats
    /\ UNCHANGED <<hostVars, scriptVars, allocated, instanceVars, heap, calls, executorVars>>

\* terminate(...args) on the second instance.
PeerTerminate(args) ==
    /\ peer.options # NoInstance
    /\ peer.terminated = <<>>
    /\ peer' = [peer EXCEPT !.terminated = <<TerminateForce(args)>>]
    /\ statsRet' = NoStats
    /\ UNCHANGED <<hostVars, scriptVars, allocated, instanceVars, cacheVars, heap, calls, executorVars>>

\* ------------------------------------------------ the supporters script
\* The data script of the documentation site: it pages through the orders
\* of the OpenCollective account and sorts the supporters into buckets.
REQUIRED_KEYS == {"totalDonations", "slug", "name"}

\* null, as the API sends it for an order without tier.
Null == [t |-> "null"]

\* scriptVars when the script has not been started.
NoSupporters == [t |-> "none"]

\* An order node of the GraphQL response.
OrderNode(slug, value, tier) ==
    [fromAccount |-> [name |-> slug, slug |-> slug, website |-> "", imageUrl |-> ""],
     totalDonations |-> [value |-> value],
     tier |-> tier,
     createdAt |-> ""]

\* The orders the account may have: two supporters, donations of 1 and 2,
\* no tier or one of the tiers 'backers' and 'gold'.
Tiers == {Null, [slug |-> "backers"], [slug |-> "gold"]}
OrderNodes == {OrderNode(s, v, t) : s \in {"a", "b"}, v \in {1, 2}, t \in Tiers}

\* The orders the paged responses are made of.
PagedNodes == {OrderNode("a", 1, Null), OrderNode("b", 2, [slug |-> "backers"])}

\* All sequences over S of length n, and of length at most n.
RECURSIVE SeqsOfLen(_, _)
SeqsOfLen(S, n) ==
    IF n = 0 THEN {<<>>}
    ELSE {Append(q, x) : q \in SeqsOfLen(S, n - 1), x \in S}
SeqsUpTo(S, n) == UNION {SeqsOfLen(S, k) : k \in 0 .. n}

nodeToSupporter(node) ==
    [name |-> node.fromAccount.name,
     slug |-> node.fromAccount.slug,
     website |-> node.fromAccount.website,
     avatar |-> node.fromAccount.imageUrl,
     tier |-> IF node.tier # Null THEN node.tier.slug ELSE "sponsors",
     firstDonation |-> node.createdAt,
     totalDonations |-> node.totalDonations.value * 100]

\* orders.map(nodeToSupporter)
MapSupporters(orders) == [i \in 1 .. Len(orders) |-> nodeToSupporter(orders[i])]

\* The comparator of the sort: (a, b) => b.totalDonations - a.totalDonations
CompareAscending(a, b) == a.totalDonations - b.totalDonations
CompareDonations(a, b) == b.totalDonations - a.totalDonations

\* Array.prototype.sort with that comparator: a stable sort, as insertion of
\* each element behind those that do not have to follow it.
RECURSIVE InsertSorted(_, _)
InsertSorted(sorted, x) ==
    IF sorted = <<>> THEN <<x>>
    ELSE IF CompareDonations(sorted[1], x) > 0 THEN <<x>> \o sorted
    ELSE <<sorted[1]>> \o InsertSorted(Tail(sorted), x)

RECURSIVE SortSupporters(_)
SortSupporters(list) ==
    IF list = <<>> THEN <<>>
    ELSE InsertSorted(SortSupporters(SubSeq(list, 1, Len(list) - 1)), list[Len(list)])

\* The reduce with seenSupporters: the first entry of each slug is kept.
RECURSIVE Deduplicate(_, _)
Deduplicate(list, seenSupporters) ==
    IF list = <<>> THEN <<>>
    ELSE IF list[1].slug \in seenSupporters
         THEN Deduplicate(Tail(list), seenSupporters)
         ELSE <<list[1]>> \o Deduplicate(Tail(list), seenSupporters \cup {list[1].slug})

\* The validation against REQUIRED_KEYS: `key in item` for every item and key.
HasRequiredKeys(list) ==
    \A i \in 1 .. Len(list) : \A key \in REQUIRED_KEYS : key \in DOMAIN list[i]

\* What the exported function resolves with, given the orders it fetched.
SupportersOf(orders) ==
    LET list == Deduplicate(SortSupporters(MapSupporters(orders)), {})
    IN  IF ~HasRequiredKeys(list)
        THEN [t |-> "error", message |-> "Supporters: item doesn't include key."]
        ELSE [t |-> "supporters",
              backers |-> SelectSeq(list, LAMBDA s : s.tier = "backers"),
              sponsors |-> SelectSeq(list, LAMBDA s : s.tier = "sponsors")]

\* orders.length < graphqlPageSize: the page was the last one.
FullPageIsLast(orders) == Len(orders) <= PageSize
LastPage(orders) == Len(orders) < PageSize

\* The responses of the API to a request with limit PageSize.
PageResponses == SeqsUpTo(PagedNodes, PageSize)

\* One turn of the loop of getAllOrders: the request with the current
\* variables, the response `orders`, and the test that ends the loop.
FetchPage(orders) ==
    /\ scriptPc = "fetching"
    /\ Len(requested) < MaxPages
    /\ requested' = Append(requested, variables)
    /\ pages' = Append(pages, orders)
    /\ allOrders' = allOrders \o orders
    /\ variables' = [variables EXCEPT !.offset = @ + PageSize]
    /\ scriptPc' = IF LastPage(orders) THEN "fetched" ELSE "fetching"
    /\ UNCHANGED <<supporters, poolVars>>

GetNextPage == \E orders \in PageResponses : FetchPage(orders)

\* The exported function, once getAllOrders has returned.
ExportSupporters ==
    /\ scriptPc = "fetched"
    /\ supporters' = SupportersOf(allOrders)
    /\ scriptPc' = "done"
    /\ UNCHANGED <<variables, requested, pages, allOrders, poolVars>>

\* ------------------------------------------------------- specifications
\* The module as loaded on a host, before any pool exists.
InitLoaded ==
    /\ optionsCache = EmptyMap
    /\ serializerCalls = [r \in AllRefs |-> 0]
    /\ returned = [r \in AllRefs |-> <<>>]
    /\ stale = {}
    /\ reserialized = {}
    /\ sinceReset = {}
    /\ thrown = [r \in AllRefs |-> 0]
    /\ allocated = 0
    /\ peer = NoPeer
    /\ calls = [c \in Calls |-> IdleCall]
    /\ queue = <<>>
    /\ running = {}
    /\ term = [phase |-> "running", args |-> <<>>, force |-> FALSE]
    /\ atTerminate = [dispatched |-> {}, inflight |-> {}]
    /\ statsRet = NoStats

\* The supporters script has not been started.
ScriptNotRun ==
    /\ scriptPc = "idle"
    /\ variables = [limit |-> PageSize, offset |-> 0, slug |-> "mochajs"]
    /\ requested = <<>>
    /\ pages = <<>>
    /\ allOrders = <<>>
    /\ supporters = NoSupporters

\* A pool made by WorkerPool.create() with no arguments.
InitDefaultPool ==
    /\ createArgs = <<>>
    /\ options = ConstructedOptions(<<>>, CPU_COUNT, execArgv)
    /\ poolConfig = [script |-> WORKER_PATH, options |-> options]

\* Construction, on every host.
InitCreate ==
    /\ CPU_COUNT \in 1 .. MaxCpus
    /\ execArgv \in ExecArgvs
    /\ createArgs = <<>>
    /\ options = NoInstance
    /\ poolConfig = NoInstance
    /\ heap = InitialHeap
    /\ InitLoaded
    /\ ScriptNotRun

NextCreate == \E args \in ConstructorArgs : Create(args)

SpecCreate == InitCreate /\ [][NextCreate]_vars

\* The options cache, used directly.
InitCache ==
    /\ CPU_COUNT = 2
    /\ execArgv = <<>>
    /\ InitDefaultPool
    /\ heap = InitialHeap
    /\ InitLoaded
    /\ ScriptNotRun

NextCache ==
    \/ \E o \in Refs : SerializeOptions(o)
    \/ ResetOptionsCache
    \/ \E o \in Refs, content \in Contents : Mutate(o, content)

SpecCache == InitCache /\ [][NextCache]_vars

\* The hosts the pool behaviours run on: one worker, or two.
RunHosts == {2, 3}

\* The options object of the run() calls: mocha's runner passes the one
\* options object of the test run with every file.
RunRefs == {1}

\* A default pool in use: run(), the executor, stats() and terminate().
Init ==
    /\ CPU_COUNT \in RunHosts
    /\ execArgv = <<>>
    /\ InitDefaultPool
    /\ heap = InitialHeap
    /\ InitLoaded
    /\ ScriptNotRun

Next ==
    \/ \E c \in Calls, fp \in FilepathInputs, o \in RunRefs : Run(c, fp, o)
    \/ Dispatch
    \/ \E c \in Calls, raw \in RawResults : TaskCompletes(c, raw)
    \/ \E c \in Calls, err \in ExecutorErrors : TaskFails(c, err)
    \/ \E args \in TerminateArgs, dropPending \in BOOLEAN : Terminate(args, dropPending)
    \/ TerminateResolves
    \/ Stats

Spec == Init /\ [][Next]_vars

\* run() to its result, while the options object changes and the cache is reset.
NextRun ==
    \/ \E c \in Calls, fp \in FilepathInputs, o \in RunRefs : Run(c, fp, o)
    \/ Dispatch
    \/ \E c \in Calls, raw \in RawResults : TaskCompletes(c, raw)
    \/ ResetOptionsCache
    \/ \E o \in RunRefs, content \in Contents : Mutate(o, content)

SpecRun == Init /\ [][NextRun]_vars

\* What the callers' objects hold when some cannot be serialized.
AnyContents == Contents \cup {Circular}

\* run() and serializeOptions() on the same objects, which change, between resets.
NextShare ==
    \/ \E o \in Refs : SerializeOptions(o)
    \/ \E c \in Calls, o \in RunRefs : Run(c, Str("file.js"), o)
    \/ ResetOptionsCache
    \/ \E o \in RunRefs, content \in AnyContents : Mutate(o, content)

SpecShare == InitCache /\ [][NextShare]_vars

\* Two pools of one process: run() on both, construction, termination, reset.
NextInstances ==
    \/ \E c \in Calls, o \in RunRefs : Run(c, Str("file.js"), o)
    \/ \E args \in PeerArgs : PeerCreate(args)
    \/ \E fp \in {Str(""), Str("file.js")}, o \in RunRefs : PeerRun(fp, o)
    \/ \E args \in TerminateArgs : PeerTerminate(args)
    \/ Terminate(<<>>, FALSE)
    \/ ResetOptionsCache
    \/ \E o \in RunRefs, content \in Contents : Mutate(o, content)

SpecInstances == InitCache /\ [][NextInstances]_vars

\* run() and serializeOptions() called without options, next to calls with some.
NextDefault ==
    \/ \E c \in Calls, fp \in {Str(""), Str("file.js")} : RunDefault(c, fp)
    \/ SerializeOptionsDefault
    \/ \E c \in Calls, o \in RunRefs : Run(c, Str("file.js"), o)
    \/ \E o \in RunRefs : SerializeOptions(o)
    \/ ResetOptionsCache

SpecDefault == InitCache /\ [][NextDefault]_vars

\* The process of the supporters script: no pool is made in it.
InitNoPool ==
    /\ CPU_COUNT = 2
    /\ execArgv = <<>>
    /\ createArgs = <<>>
    /\ options = NoInstance
    /\ poolConfig = NoInstance
    /\ heap = InitialHeap
    /\ InitLoaded

\* The script from the first request of getAllOrders on.
InitOrders ==
    /\ InitNoPool
    /\ scriptPc = "fetching"
    /\ variables = [limit |-> PageSize, offset |-> 0, slug |-> "mochajs"]
    /\ requested = <<>>
    /\ pages = <<>>
    /\ allOrders = <<>>
    /\ supporters = NoSupporters

NextOrders == GetNextPage \/ ExportSupporters

SpecOrders == InitOrders /\ [][NextOrders]_vars

\* The pages getAllOrders received when it returned `orders`: full ones and
\* a last one that is not.
RECURSIVE PagesOf(_)
PagesOf(orders) ==
    IF Len(orders) < PageSize THEN <<orders>>
    ELSE <<SubSeq(orders, 1, PageSize)>> \o PagesOf(SubSeq(orders, PageSize + 1, Len(orders)))

\* The exported function on the orders of any account, once getAllOrders
\* has returned them.
InitSupporters ==
    /\ InitNoPool
    /\ scriptPc = "fetched"
    /\ allOrders \in SeqsUpTo(OrderNodes, MaxOrders)
    /\ pages = PagesOf(allOrders)
    /\ requested = [i \in 1 .. Len(pages) |-> [limit |-> PageSize, offset |-> (i - 1) * PageSize, slug |-> "mochajs"]]
    /\ variables = [limit |-> PageSize, offset |-> Len(pages) * PageSize, slug |-> "mochajs"]
    /\ supporters = NoSupporters

NextSupporters == ExportSupporters

SpecSupporters == InitSupporters /\ [][NextSupporters]_vars

\* ------------------------------------------------------------- properties
Max(a, b) == IF a >= b THEN a ELSE b

\* C1: two serializeOptions(o) calls with the same reference and no reset in
\* between return the identical string, and the serializer has been invoked
\* exactly once for o, whatever happened to the object's content meanwhile.
C1_SameStringSerializedOnce ==
    \A o \in Refs :
        /\ Len(returned[o]) = 2 => returned[o][1] = returned[o][2]
        /\ Len(returned[o]) >= 1 => serializerCalls[o] = 1

\* C1 happens: o was serialized twice and its content has changed since, so
\* that a second serialization would have given another string.
C1_Witness ==
    \E o \in Refs :
        /\ Len(returned[o]) = 2
        /\ serializerCalls[o] = 1
        /\ serializeJavascript(heap[o]) # returned[o][2]

\* The filepaths run() must refuse: missing, empty, or not a string.
BadFilepath(fp) == fp = Undefined \/ fp = Str("") \/ fp.t # "string"

\* C2: a run() whose filepath is missing, empty or not a string is rejected
\* with the invalid-argument-type error (code ERR_MOCHA_INVALID_ARG_TYPE,
\* parameter 'filepath', expected 'string') and submits nothing to the executor.
C2_BadFilepathRejectedWithoutExec ==
    \A c \in Calls :
        (calls[c].pc # "idle" /\ BadFilepath(calls[c].fp)) =>
            /\ calls[c].pc = "rejected"
            /\ calls[c].val.code = "ERR_MOCHA_INVALID_ARG_TYPE"
            /\ calls[c].val.argument = "filepath"
            /\ calls[c].val.expected = "string"
            /\ calls[c].tasks = <<>>
            /\ c \notin running \cup Range(queue)

\* C2 happens: an empty filepath and a non-string one were both refused.
C2_Witness ==
    /\ \E c \in Calls : calls[c].pc = "rejected" /\ calls[c].fp = Str("")
    /\ \E c \in Calls : calls[c].pc = "rejected" /\ calls[c].fp = Num(123)

\* C3: a run() with a valid filepath submits exactly one task, named "run",
\* with the arguments [filepath, the string serializeOptions gave it]; once
\* the executor resolves, the raw result has gone through the deserializer
\* exactly once and the call returns the deserializer's output.
C3_OneTaskOneDeserialization ==
    \A c \in Calls :
        /\ calls[c].pc \in {"awaiting", "resolved"} =>
              /\ ~BadFilepath(calls[c].fp)
              /\ calls[c].tasks = <<[name |-> "run", args |-> <<calls[c].fp, calls[c].ser>>]>>
              /\ calls[c].ser \in {serializeJavascript(content) : content \in Contents}
        /\ calls[c].pc = "awaiting" => calls[c].deser = <<>>
        /\ calls[c].pc = "resolved" =>
              /\ Len(calls[c].deser) = 1
              /\ calls[c].val = deserialize(calls[c].deser[1])

\* C3 happens: run('file.js', {foo: 'bar'}) resolved with the deserialized
\* result after one exec('run', ['file.js', '{"foo":"bar"}']).
C3_Witness ==
    \E c \in Calls :
        /\ calls[c].pc = "resolved"
        /\ calls[c].tasks = <<[name |-> "run", args |-> <<Str("file.js"), "{\"foo\":\"bar\"}">>]>>
        /\ calls[c].deser = <<RawResult(1)>>
        /\ calls[c].val = [failures |-> 1, events |-> <<>>]

\* C4: whatever configuration the constructor is given, the resolved
\* configuration has maxWorkers >= 1.
C4_MaxWorkersAtLeastOne ==
    options # NoInstance => NumGeq(options.maxWorkers, Num(1))

\* C5: construction with no arguments yields workerType 'process', forkOpts
\* {execArgv: process.execArgv} and maxWorkers = max(1, CPU_COUNT - 1): 7 on
\* an 8-core host, 1 on a 1-core host.
C5_DefaultConstruction ==
    (options # NoInstance /\ createArgs = <<>>) =>
        /\ options = [workerType |-> Str("process"),
                      forkOpts |-> [execArgv |-> execArgv],
                      maxWorkers |-> Num(Max(1, CPU_COUNT - 1))]
        /\ poolConfig.options = options
        /\ CPU_COUNT = 8 => options.maxWorkers = Num(7)
        /\ CPU_COUNT = 1 => options.maxWorkers = Num(1)

\* C5 happens: a pool was constructed with no arguments on an 8-core host.
C5_Witness ==
    /\ options # NoInstance
    /\ createArgs = <<>>
    /\ CPU_COUNT = 8
    /\ options.maxWorkers = Num(7)

\* C6: stats() returns what the executor's stats call produced, as it is, and
\* a stats() call changes nothing: no task is submitted, the cache, the calls
\* and the executor's lifecycle stay as they were.
C6_StatsPassThroughNoEffect ==
    [][statsRet' # NoStats =>
          /\ statsRet'.produced = ExecutorStats
          /\ statsRet'.returned = statsRet'.produced
          /\ UNCHANGED <<hostVars, scriptVars, peer, allocated, instanceVars, cacheVars, heap, calls, executorVars>>]_vars

\* C6 happens: stats() returned a snapshot with a busy worker and a pending task.
C6_Witness ==
    /\ statsRet # NoStats
    /\ statsRet.returned.busyWorkers = 1
    /\ statsRet.returned.pendingTasks = 1

\* C7: after resetOptionsCache() no entry is left: an object whose entry the
\* reset discarded is not in the cache, and the next serialization of it
\* invokes the serializer again and caches the string for the object as it
\* is then, as on a first call.
C7_ResetDiscardsEntries ==
    /\ [](\A o \in Refs :
            /\ o \in stale => o \notin DOMAIN optionsCache /\ serializerCalls[o] = 0
            /\ o \in reserialized => o \in DOMAIN optionsCache /\ serializerCalls[o] = 1)
    /\ [][\A o \in Refs :
            (o \in stale /\ o \notin stale') =>
                /\ serializerCalls'[o] = serializerCalls[o] + 1
                /\ o \in DOMAIN optionsCache'
                /\ optionsCache'[o] = serializeJavascript(heap[o])
                /\ o \in reserialized']_vars

\* C7 happens: an entry was discarded by a reset and its object serialized
\* again, to a string for its current content.
C7_Witness ==
    \E o \in Refs :
        /\ o \in reserialized
        /\ serializerCalls[o] = 1
        /\ optionsCache[o] = "{}"

\* C8: when the executor fails a call's task, the call rejects with that very
\* error; it has submitted one task only, nothing went to the deserializer,
\* and it returns no result.
C8_ExecutorErrorPropagates ==
    \A c \in Calls :
        calls[c].raised # Undefined =>
            /\ calls[c].pc = "rejected"
            /\ calls[c].val = calls[c].raised
            /\ Len(calls[c].tasks) = 1
            /\ calls[c].deser = <<>>
            /\ c \notin running \cup Range(queue)

\* C8 happens: a worker crashed under a call.
C8_Witness ==
    \E c \in Calls :
        /\ calls[c].pc = "rejected"
        /\ calls[c].raised = WorkerCrashed
        /\ calls[c].val = WorkerCrashed

\* C9: terminate() without force asks the executor with force = false; the
\* calls whose task a worker was executing then are not failed by the
\* termination, those whose task finishes resolve with their result, and all
\* of them are settled when the termination promise resolves.
C9_GracefulTerminationLetsCallsFinish ==
    /\ (term.phase # "running" /\ term.args = <<>>) => term.force = FALSE
    /\ (term.phase # "running" /\ ~term.force) =>
          \A c \in atTerminate.dispatched :
              /\ calls[c].raised # PoolTerminated
              /\ c \in running \/ calls[c].pc \in {"resolved", "rejected"}
              /\ calls[c].pc = "resolved" => calls[c].val = deserialize(calls[c].deser[1])
    /\ (term.phase = "terminated" /\ ~term.force) =>
          \A c \in atTerminate.dispatched : calls[c].pc \in {"resolved", "rejected"}

\* C9 happens: terminate() was called with a task executing, the call got its
\* result, and the termination has resolved.
C9_Witness ==
    /\ term.phase = "terminated"
    /\ term.args = <<>>
    /\ \E c \in atTerminate.dispatched : calls[c].pc = "resolved"

\* C10: terminate(true) asks the executor with force = true; every call in
\* flight then is rejected and gets no result, and the termination has
\* nothing left to wait for.
C10_ForcedTerminationFailsCalls ==
    /\ (term.phase # "running" /\ term.args = <<TRUE>>) => term.force = TRUE
    /\ (term.phase # "running" /\ term.force) =>
          \A c \in atTerminate.inflight :
              /\ calls[c].pc = "rejected"
              /\ calls[c].raised # Undefined
              /\ calls[c].deser = <<>>
    /\ (term.phase = "terminating" /\ term.force) => ENABLED TerminateResolves

\* C10 happens: terminate(true) came with one task executing and one pending;
\* both calls were rejected for the termination.
C10_Witness ==
    /\ term.phase # "running"
    /\ term.args = <<TRUE>>
    /\ atTerminate.dispatched # {}
    /\ atTerminate.inflight # atTerminate.dispatched
    /\ \A c \in atTerminate.inflight : calls[c].raised = PoolTerminated

\* C11 (as the code has it): between two resets the serializer succeeds at
\* most once per reference, every invocation beyond that one being a failed
\* attempt that left no entry; the run() calls that share a reference and were
\* made since the last reset all submitted the one string the cache holds for
\* it, which is also what serializeOptions returned for it.
C11_OneSuccessfulSerializationPerReference ==
    \A o \in Refs :
        /\ serializerCalls[o] - thrown[o] = (IF o \in DOMAIN optionsCache THEN 1 ELSE 0)
        /\ \A c \in Calls :
              (<<1, c>> \in sinceReset /\ calls[c].opts = o) =>
                  /\ o \in DOMAIN optionsCache
                  /\ calls[c].ser = optionsCache[o]
                  /\ calls[c].tasks[1].args[2] = optionsCache[o]
        /\ \A i \in 1 .. Len(returned[o]) :
              o \in DOMAIN optionsCache /\ returned[o][i] = optionsCache[o]

\* C11 happens: two run() calls made since the last reset share an object
\* that changed between them; the serializer ran once and both submitted the
\* same string.
C11_Witness ==
    \E c1, c2 \in Calls :
        /\ c1 # c2
        /\ {<<1, c1>>, <<1, c2>>} \subseteq sinceReset
        /\ calls[c1].opts = calls[c2].opts
        /\ calls[c1].ser = calls[c2].ser
        /\ serializerCalls[calls[c1].opts] = 1
        /\ serializeJavascript(heap[calls[c1].opts]) # calls[c1].ser

\* C11 (as stated): between two resets the serializer is invoked at most once
\* per reference, and the run() calls sharing a reference submit the same string.
C11_SerializerInvokedAtMostOnce ==
    \A o \in Refs :
        /\ serializerCalls[o] <= 1
        /\ \A c1, c2 \in Calls :
              ({<<1, c1>>, <<1, c2>>} \subseteq sinceReset
                  /\ calls[c1].opts = o /\ calls[c2].opts = o) =>
                  calls[c1].ser = calls[c2].ser

\* C12: the cache is keyed by the identity of the object, not by what it
\* holds: of two distinct references that were serialized, also two holding
\* the very same content, each had the serializer invoked once for it and
\* each has its own entry; none was served from the other's entry.
C12_KeyedByIdentity ==
    \A o1, o2 \in Refs :
        (o1 # o2 /\ returned[o1] # <<>> /\ returned[o2] # <<>>) =>
            /\ serializerCalls[o1] = 1
            /\ serializerCalls[o2] = 1
            /\ {o1, o2} \subseteq DOMAIN optionsCache

\* C12 happens: two distinct objects with identical contents were serialized;
\* the cache holds one entry for each, with equal strings.
C12_Witness ==
    \E o1, o2 \in Refs :
        /\ o1 # o2
        /\ heap[o1] = heap[o2]
        /\ returned[o1] # <<>> /\ returned[o2] # <<>>
        /\ serializerCalls[o1] = 1 /\ serializerCalls[o2] = 1
        /\ {o1, o2} \subseteq DOMAIN optionsCache
        /\ optionsCache[o1] = optionsCache[o2]

\* C13: when the serializer fails, the error comes out of the call: a run()
\* is rejected with it and has submitted no task; the failing call invoked
\* the serializer and left the cache as it was, so an object the serializer
\* fails on gets no entry and every later call on it invokes the serializer again.
C13_SerializerFailureNotCached ==
    /\ [](/\ \A c \in Calls :
               calls[c].val = SerializerError =>
                   /\ calls[c].pc = "rejected"
                   /\ calls[c].tasks = <<>>
                   /\ calls[c].raised = Undefined
                   /\ c \notin running \cup Range(queue)
                   /\ <<1, c>> \notin sinceReset
          /\ \A o \in Refs :
               (thrown[o] > 0 /\ o \notin DOMAIN optionsCache) =>
                   serializerCalls[o] = thrown[o])
    /\ [][\A o \in Refs :
            /\ thrown'[o] # thrown[o] =>
                  \/ thrown'[o] = 0
                  \/ /\ thrown'[o] = thrown[o] + 1
                     /\ serializerCalls'[o] = serializerCalls[o] + 1
                     /\ optionsCache' = optionsCache
                     /\ UNCHANGED <<returned, queue, sinceReset>>
            /\ (SerializerThrows(heap[o]) /\ o \notin DOMAIN optionsCache) =>
                  o \notin DOMAIN optionsCache']_vars

\* C13 happens: the serializer failed twice on one object, once under a run()
\* that was rejected with the serializer's error; the object has no entry.
C13_Witness ==
    \E c \in Calls :
        /\ calls[c].pc = "rejected"
        /\ calls[c].val = SerializerError
        /\ calls[c].tasks = <<>>
        /\ thrown[calls[c].opts] = 2
        /\ serializerCalls[calls[c].opts] = 2
        /\ calls[c].opts \notin DOMAIN optionsCache

\* The lifecycle phases after terminate() was called.
Terminating == {"terminating", "terminated"}

\* C14 (as the code has it): terminate() hands the termination to the
\* executor at once, so the lifecycle has left Running when terminate()
\* returns its promise; run() itself looks at no lifecycle state: in every
\* phase a call with a valid filepath submits exactly one task to the
\* executor, and a call made after terminate() is rejected only if the
\* executor rejects its task.
C14_RunSubmitsInEveryPhase ==
    /\ atTerminate.inflight # {} => term.phase \in Terminating
    /\ \A c \in Calls :
          calls[c].pc # "idle" =>
              /\ calls[c].issuedIn \in {"running"} \cup Terminating
              /\ ~BadFilepath(calls[c].fp) =>
                    /\ Len(calls[c].tasks) = 1
                    /\ calls[c].tasks[1].name = "run"
                    /\ calls[c].pc = "rejected" => calls[c].raised # Undefined
                    /\ calls[c].pc = "awaiting" => c \in running \cup Range(queue)

\* C14 happens: a run() made after the termination had resolved handed its
\* task to the executor and is waiting for it, and another one made while a
\* termination was going on got its result.
C14_Witness ==
    /\ \E c \in Calls :
          /\ calls[c].issuedIn = "terminated"
          /\ calls[c].pc = "awaiting"
          /\ Len(calls[c].tasks) = 1
          /\ c \in Range(queue)
    /\ \E c \in Calls :
          /\ calls[c].issuedIn = "terminating"
          /\ calls[c].pc = "resolved"

\* C14 (as stated): a run() made after terminate() was called is rejected
\* and submits no task to the executor.
C14_RunAfterTerminateRejected ==
    \A c \in Calls :
        calls[c].issuedIn \in Terminating =>
            /\ calls[c].pc = "rejected"
            /\ calls[c].tasks = <<>>

\* C15: every pool, constructed with or without a configuration, has its
\* executor configured with the default of each field the caller did not
\* set: out-of-process workers (workerType 'process') that inherit the
\* launch flags (forkOpts.execArgv = process.execArgv).
C15_DefaultsForUnsetFields ==
    options # NoInstance =>
        LET given == IF createArgs = <<>> THEN {} ELSE DOMAIN createArgs[1]
            defaults == WORKER_POOL_DEFAULT_OPTS(CPU_COUNT, execArgv)
        IN  /\ poolConfig.options = options
            /\ \A k \in {"workerType", "forkOpts"} :
                  k \notin given => Get(poolConfig.options, k) = defaults[k]

\* C16: each of several concurrent run() calls resolves with the
\* deserialization of the raw result the executor produced for its own task,
\* and it resolves when that task completes, whatever the other calls are
\* doing: a call is resolved exactly when its task has a result, and a call
\* whose task has none yet holds no value.
C16_OwnResultInCompletionOrder ==
    \A c \in Calls :
        /\ calls[c].pc = "resolved" <=> calls[c].raw # Undefined
        /\ calls[c].pc = "resolved" =>
              /\ calls[c].raw \in RawResults
              /\ calls[c].deser = <<calls[c].raw>>
              /\ calls[c].val = deserialize(calls[c].raw)
              /\ calls[c].val.failures = calls[c].raw.failures
        /\ calls[c].pc = "awaiting" => calls[c].val = Undefined

\* C16 happens: two calls were running at once; the one submitted later has
\* resolved with its own result while the earlier one is still executing.
C16_Witness ==
    \E c1, c2 \in Calls :
        /\ c1 < c2
        /\ calls[c1].pc = "awaiting"
        /\ c1 \in running
        /\ calls[c2].pc = "resolved"
        /\ calls[c2].raw = RawResult(1)
        /\ calls[c2].val = [failures |-> 1, events |-> <<>>]

\* The options object and the string of a run() that serialized since the
\* last reset, on the first instance (<<1, call>>) or the second (<<2, k>>).
OptsOf(x) == IF x[1] = 1 THEN calls[x[2]].opts ELSE peer.execs[x[2]].opts
SerOf(x) == IF x[1] = 1 THEN calls[x[2]].ser ELSE peer.execs[x[2]].task.args[2]

\* C17: the cache belongs to the module, not to a pool: the run() calls made
\* since the last reset with one object, on whichever instance, all submitted
\* the string of the one entry, which the serializer was invoked once for; a
\* reset leaves no entry for any instance; and constructing or terminating a
\* pool leaves the cache as it was.
C17_CacheSharedByInstances ==
    /\ [](/\ \A x \in sinceReset :
               /\ OptsOf(x) \in DOMAIN optionsCache
               /\ SerOf(x) = optionsCache[OptsOf(x)]
               /\ serializerCalls[OptsOf(x)] = 1
          /\ \A o \in Refs : o \in stale => o \notin DOMAIN optionsCache)
    /\ [][(peer'.options # peer.options \/ peer'.terminated # peer.terminated \/ term' # term)
              => UNCHANGED <<optionsCache, serializerCalls>>]_vars
    /\ [][(sinceReset # {} /\ sinceReset' = {}) => optionsCache' = EmptyMap]_vars

\* C17 happens: a run() on the first pool created the entry, the object
\* changed, the second pool was constructed, ran the same object and was
\* terminated: one serialization, the same string on both.
C17_Witness ==
    \E c \in Calls :
        /\ {<<1, c>>, <<2, 1>>} \subseteq sinceReset
        /\ calls[c].opts = peer.execs[1].opts
        /\ calls[c].ser = peer.execs[1].task.args[2]
        /\ serializerCalls[calls[c].opts] = 1
        /\ serializeJavascript(heap[calls[c].opts]) # calls[c].ser
        /\ peer.terminated # <<>>
        /\ term.phase # "running"

\* The objects made by a default parameter value so far, and those to come.
FreshRefs == NumObjs + 1 .. NumObjs + MaxFresh

\* C18: a run(filepath) or serializeOptions() without options works on an
\* empty object made for that call: the object has no entry, so the call
\* invokes the serializer, once, and gets "{}", which is what run() submits;
\* no two such calls share an object, and an object not made yet has no entry.
C18_OmittedOptionsSerializedEachTime ==
    /\ [](/\ \A r \in FreshRefs :
               /\ heap[r] = EmptyContent
               /\ r > NumObjs + allocated => r \notin DOMAIN optionsCache /\ serializerCalls[r] = 0
               /\ r \in DOMAIN optionsCache => optionsCache[r] = "{}" /\ serializerCalls[r] = 1
               /\ \A i \in 1 .. Len(returned[r]) : returned[r][i] = "{}"
          /\ \A c \in Calls :
               (calls[c].opts \in FreshRefs /\ calls[c].pc = "awaiting") =>
                   /\ calls[c].tasks = <<[name |-> "run", args |-> <<calls[c].fp, "{}">>]>>
                   /\ \A b \in Calls : (b # c /\ calls[b].pc # "idle") => calls[b].opts # calls[c].opts)
    /\ [][allocated' # allocated =>
             LET r == NumObjs + allocated + 1
             IN  /\ allocated' = allocated + 1
                 /\ r \notin DOMAIN optionsCache
                 /\ \/ /\ serializerCalls'[r] = serializerCalls[r] + 1
                       /\ r \in DOMAIN optionsCache'
                       /\ optionsCache'[r] = "{}"
                    \/ /\ \E c \in Calls : calls[c].pc = "idle" /\ calls'[c].pc = "rejected"
                                           /\ BadFilepath(calls'[c].fp)
                       /\ UNCHANGED <<optionsCache, serializerCalls>>]_vars

\* C18 happens: two run(filepath) calls without options are waiting; each had
\* its own empty object serialized, two serializer invocations in all, and
\* both submitted "{}".
C18_Witness ==
    \E c1, c2 \in Calls :
        /\ c1 # c2
        /\ calls[c1].pc = "awaiting" /\ calls[c2].pc = "awaiting"
        /\ {calls[c1].opts, calls[c2].opts} \subseteq FreshRefs
        /\ calls[c1].opts # calls[c2].opts
        /\ serializerCalls[calls[c1].opts] = 1 /\ serializerCalls[calls[c2].opts] = 1
        /\ calls[c1].tasks[1].args[2] = "{}" /\ calls[c2].tasks[1].args[2] = "{}"

\* The entries of a list, in order, as a set of positions.
Positions(list) == 1 .. Len(list)

\* list is ordered by non-increasing totalDonations.
NonIncreasing(list) ==
    \A i, j \in Positions(list) : i < j => list[i].totalDonations >= list[j].totalDonations

\* C19: in what the exported function returns, no slug occurs twice in
\* backers and sponsors together; each entry comes from an order of its slug
\* and carries the largest totalDonations of that slug's orders; each list is
\* ordered by non-increasing totalDonations; backers holds entries of tier
\* 'backers' only, and the entry of an order without tier is in sponsors.
C19_SupportersDeduplicatedAndSorted ==
    scriptPc = "done" =>
        LET both == supporters.backers \o supporters.sponsors
        IN  /\ supporters.t = "supporters"
            /\ \A i, j \in Positions(both) : i # j => both[i].slug # both[j].slug
            /\ \A i \in Positions(both) :
                  /\ \E n \in Positions(allOrders) : both[i] = nodeToSupporter(allOrders[n])
                  /\ \A n \in Positions(allOrders) :
                        allOrders[n].fromAccount.slug = both[i].slug =>
                            allOrders[n].totalDonations.value * 100 <= both[i].totalDonations
            /\ NonIncreasing(supporters.backers)
            /\ NonIncreasing(supporters.sponsors)
            /\ \A i \in Positions(supporters.backers) : supporters.backers[i].tier = "backers"
            /\ \A n \in Positions(allOrders) :
                  (/\ allOrders[n].tier = Null
                   /\ \A m \in Positions(allOrders) :
                         (m # n /\ allOrders[m].fromAccount.slug = allOrders[n].fromAccount.slug) =>
                             allOrders[m].totalDonations.value < allOrders[n].totalDonations.value) =>
                      \E i \in Positions(supporters.sponsors) :
                          /\ supporters.sponsors[i].slug = allOrders[n].fromAccount.slug
                          /\ supporters.sponsors[i].tier = "sponsors"

\* C19 happens: a supporter has two orders, the larger one without tier and
\* the smaller one as a backer, next to another backer: the supporter is in
\* sponsors, once, with the larger amount.
C19_Witness ==
    /\ scriptPc = "done"
    /\ \E m, n \in Positions(allOrders) :
          /\ allOrders[m].fromAccount.slug = allOrders[n].fromAccount.slug
          /\ allOrders[m].totalDonations.value < allOrders[n].totalDonations.value
          /\ m < n
          /\ allOrders[m].tier = [slug |-> "backers"]
          /\ allOrders[n].tier = Null
          /\ \E i \in Positions(supporters.sponsors) :
                /\ supporters.sponsors[i].slug = allOrders[n].fromAccount.slug
                /\ supporters.sponsors[i].totalDonations = 200
    /\ Len(supporters.backers) = 1

\* The orders of the pages, one page after the other.
RECURSIVE Concat(_)
Concat(ps) == IF ps = <<>> THEN <<>> ELSE ps[1] \o Concat(Tail(ps))

\* C20: getAllOrders asks for the pages at the offsets 0, pageSize,
\* 2 * pageSize, ..., one request per page received; every page before the
\* last one received was full; it has returned exactly when the last page
\* received was short, and then with the pages' orders in the order of the
\* requests; as long as every page was full it goes on asking. So when the
\* account has a multiple of pageSize orders, a further request, answered by
\* an empty page, ends the loop.
C20_PagesUntilShortPage ==
    /\ Len(pages) = Len(requested)
    /\ \A i \in 1 .. Len(requested) :
          requested[i] = [limit |-> PageSize, offset |-> (i - 1) * PageSize, slug |-> "mochajs"]
    /\ variables.offset = Len(requested) * PageSize
    /\ \A i \in 1 .. Len(pages) - 1 : Len(pages[i]) = PageSize
    /\ allOrders = Concat(pages)
    /\ scriptPc \in {"fetched", "done"} <=>
          (pages # <<>> /\ Len(pages[Len(pages)]) < PageSize)
    /\ scriptPc = "fetching" <=>
          (\A i \in 1 .. Len(pages) : Len(pages[i]) = PageSize)
    /\ (scriptPc = "fetching" /\ Len(requested) < MaxPages) => ENABLED GetNextPage
    /\ scriptPc # "fetching" => ~ENABLED GetNextPage
    /\ (scriptPc # "fetching" /\ Len(allOrders) % PageSize = 0) =>
          /\ Len(pages) = Len(allOrders) \div PageSize + 1
          /\ pages[Len(pages)] = <<>>

\* C20 happens: the account has exactly two full pages of orders; the third
\* request came back empty and getAllOrders returned the orders of the two.
C20_Witness ==
    /\ scriptPc = "fetched"
    /\ Len(requested) = 3
    /\ requested[3].offset = 2 * PageSize
    /\ Len(pages[1]) = PageSize /\ Len(pages[2]) = PageSize
    /\ pages[3] = <<>>
    /\ allOrders = pages[1] \o pages[2]

====
